---- MODULE Spec2Model ----
(***************************************************************************)
(* A model of sentry_slack.plugin: SlackPlugin.notify, the helpers it      *)
(* calls, and the host collaborators it touches (the per-project option    *)
(* store, the TagKey / TagValue tables, sentry.http.safe_urlopen).         *)
(*                                                                         *)
(* Text is a sequence of tokens.  A token is one character (" ", "\t",     *)
(* "#", "U+00E9" for a non-ASCII code point, "0xC3" for a byte) or an      *)
(* atomic run of ASCII characters ("Culprit", "f43f20").                   *)
(***************************************************************************)
EXTENDS Integers, Sequences, FiniteSets, TLC

\* ------------------------------------------------------------------ bounds
MaxRules == 2
MaxTags == 2

\* -------------------------------------------------------------------- text
Whitespace == {" ", "\t"}

RECURSIVE lstrip(_, _)
lstrip(s, chars) ==
    IF s # <<>> /\ Head(s) \in chars THEN lstrip(Tail(s), chars) ELSE s

RECURSIVE rstrip(_, _)
rstrip(s, chars) ==
    IF s # <<>> /\ s[Len(s)] \in chars
    THEN rstrip(SubSeq(s, 1, Len(s) - 1), chars)
    ELSE s

\* a strip that removes space characters and leaves tabs
strip_no_tabs(s) == rstrip(lstrip(s, {" "}), {" "})

\* str.strip(): surrounding whitespace of every kind
strip(s) == rstrip(lstrip(s, Whitespace), Whitespace)

\* str.strip(' '): surrounding space characters only
strip_spaces(s) == rstrip(lstrip(s, {" "}), {" "})

\* unicode.encode('utf-8'): a non-ASCII code point becomes its bytes
RECURSIVE encode_utf8(_)
encode_utf8(s) ==
    IF s = <<>> THEN <<>>
    ELSE (IF Head(s) = "U+00E9" THEN <<"0xC3", "0xA9">> ELSE <<Head(s)>>)
         \o encode_utf8(Tail(s))

\* what json.dumps does to a byte string: decode it as UTF-8
RECURSIVE decode_utf8(_)
decode_utf8(b) ==
    IF b = <<>> THEN <<>>
    ELSE IF Len(b) >= 2 /\ b[1] = "0xC3" /\ b[2] = "0xA9"
         THEN <<"U+00E9">> \o decode_utf8(SubSeq(b, 3, Len(b)))
         ELSE <<Head(b)>> \o decode_utf8(Tail(b))

\* Python's `a in b` on strings
Contains(b, a) ==
    \E i \in 0..(Len(b) - Len(a)) : SubSeq(b, i + 1, i + Len(a)) = a

\* ', '.join(parts)
RECURSIVE join(_)
join(parts) ==
    IF parts = <<>> THEN <<>>
    ELSE IF Len(parts) = 1 THEN parts[1]
    ELSE parts[1] \o <<",", " ">> \o join(Tail(parts))

\* ------------------------------------------------------------------- state
VARIABLES
    options,        \* the host's per-project option store
    notification,   \* the notification handed to notify: event and rules
    db,             \* the host's TagKey and TagValue tables
    pc,             \* where the notify call stands
    fields,         \* the local list `fields`
    key_labels,     \* the local dict `key_labels` of _get_tags
    requests,       \* the requests handed to safe_urlopen, in order
    calls,          \* every call to an outside service, in order
    result,         \* what notify returned
    exc             \* the exception notify raised

vars == <<options, notification, db, pc, fields, key_labels, requests, calls,
          result, exc>>

\* get_option(key, project): <<>> stands for None (nothing stored), <<v>>
\* for the stored value v
get_option(key) == options[key]
IsNone(o) == Len(o) = 0
\* Python truthiness of an option holding text, and of one holding a boolean
TruthyText(o) == Len(o) = 1 /\ Len(o[1]) > 0
TruthyBool(o) == Len(o) = 1 /\ o[1]

event == notification.event
group == event.group
project == group.project


\* --------------------------------------------------------- plugin helpers
LEVEL_TO_COLOR ==
    [debug |-> <<"cfd3da">>, info |-> <<"2788ce">>, warning |-> <<"f18500">>,
     error |-> <<"f43f20">>, fatal |-> <<"d20f2a">>]

\* dict.get(key, default)
dict_get(d, key, default) == IF key \in DOMAIN d THEN d[key] ELSE default

\* group.level is what group.get_level_display() returns
color_for_group(g) == <<"#">> \o dict_get(LEVEL_TO_COLOR, g.level, <<"error">>)

get_project_full_name(p) ==
    IF ~Contains(p.name, p.team.name)
    THEN p.team.name \o <<" ">> \o p.name
    ELSE p.name

\* a configured check that asks whether a value is stored, not whether it is empty
is_configured_stored == ~IsNone(get_option("webhook"))

is_configured == TruthyText(get_option("webhook"))

\* django's reverse('sentry-edit-project-rule', args=[org, project, rule id])
reverse_rule(org_slug, project_slug, rule_id) ==
    <<"/", org_slug, "/", project_slug, "/rules/", rule_id, "/">>

Field(title, value, short) == [title |-> title, value |-> value, short |-> short]

\* a Culprit field for every culprit that is not empty, the title's twin included
culprit_fields_nonempty(title, culprit) ==
    IF culprit # <<>>
    THEN <<Field(<<"Culprit">>, culprit, FALSE)>>
    ELSE <<>>

\* lines 141-146: the Culprit field, unless title and culprit are the same
culprit_fields(title, culprit) ==
    IF title # culprit
    THEN <<Field(<<"Culprit">>, culprit, FALSE)>>
    ELSE <<>>

\* lines 148-152
project_fields(project_name) == <<Field(<<"Project">>, project_name, TRUE)>>

\* lines 155-160: the list `rules` of (rule_link, label) pairs
rule_links(g, rule_list) ==
    [i \in 1..Len(rule_list) |->
        <<reverse_rule(g.organization.slug, g.project.slug, rule_list[i].id),
          encode_utf8(rule_list[i].label)>>]

\* '<%s | %s>' % r
rule_token(r) == <<"<">> \o r[1] \o <<" ", "|", " ">> \o r[2] \o <<">">>

\* a Triggered By field whatever include_rules says
rule_fields_unasked(g, rule_list) ==
    LET rules == rule_links(g, rule_list)
    IN  IF Len(rules) > 0
        THEN <<Field(<<"Triggered By">>,
                     join([i \in 1..Len(rules) |-> rule_token(rules[i])]),
                     FALSE)>>
        ELSE <<>>

\* lines 154-167
rule_fields(g, rule_list) ==
    IF TruthyBool(get_option("include_rules"))
    THEN LET rules == rule_links(g, rule_list)
         IN  IF Len(rules) > 0
             THEN <<Field(<<"Triggered By">>,
                          join([i \in 1..Len(rules) |-> rule_token(rules[i])]),
                          FALSE)>>
             ELSE <<>>
    ELSE <<>>

\* a TagKey lookup that forgets the project
TagKey_filter_any_project(proj, tag_list) ==
    {o \in db.TagKey : \E i \in 1..Len(tag_list) : o.key = tag_list[i][1]}

\* TagKey.objects.filter(project=..., key__in=[...]); a row's label is what
\* its get_label() returns
TagKey_filter(proj, tag_list) ==
    {o \in db.TagKey :
        o.project = proj.id /\ \E i \in 1..Len(tag_list) : o.key = tag_list[i][1]}

\* TagValue.objects.filter(Q(key=k, value=v) | ..., project=...)
TagValue_filter(proj, tag_list) ==
    {o \in db.TagValue :
        o.project = proj.id
        /\ \E i \in 1..Len(tag_list) :
              o.key = tag_list[i][1] /\ o.value = tag_list[i][2]}

\* lines 101-107: {o.key: o.get_label() for o in ...}
key_labels_of(rows) ==
    [k \in {o.key : o \in rows} |-> (CHOOSE o \in rows : o.key = k).label]

\* lines 108-114: {(o.key, o.value): o.get_label() for o in ...}
value_labels_of(rows) ==
    [kv \in {<<o.key, o.value>> : o \in rows} |->
        (CHOOSE o \in rows : <<o.key, o.value>> = kv).label]

\* lines 115-118 and 170-175: one field per tag, labels where there are any
tag_fields(tag_list, klabels, vlabels) ==
    [i \in 1..Len(tag_list) |->
        LET k == tag_list[i][1]
            v == tag_list[i][2]
        IN  Field(encode_utf8(dict_get(klabels, k, k)),
                  encode_utf8(dict_get(vlabels, <<k, v>>, v)),
                  TRUE)]

\* lines 177-195
build_payload(g, field_list, username, channel, icon_url) ==
    LET title == encode_utf8(g.message_short)
        project_name == encode_utf8(get_project_full_name(g.project))
        keys == {"parse", "attachments"}
                \cup (IF Len(username) > 0 THEN {"username"} ELSE {})
                \cup (IF Len(channel) > 0 THEN {"channel"} ELSE {})
                \cup (IF TruthyText(icon_url) THEN {"icon_url"} ELSE {})
    IN  [k \in keys |->
            CASE k = "parse" -> <<"none">>
              [] k = "attachments" ->
                    <<[fallback |-> <<"[">> \o project_name \o <<"]", " ">> \o title,
                       title |-> title,
                       title_link |-> g.url,
                       color |-> color_for_group(g),
                       fields |-> field_list]>>
              [] k = "username" -> encode_utf8(username)
              [] k = "channel" -> channel
              [] k = "icon_url" -> icon_url[1]]

\* json.dumps followed by the receiver's parse: lists keep their order and a
\* byte string arrives as the text it encodes
json_field(f) ==
    [title |-> decode_utf8(f.title), value |-> decode_utf8(f.value),
     short |-> f.short]

json_attachment(a) ==
    [fallback |-> decode_utf8(a.fallback),
     title |-> decode_utf8(a.title),
     title_link |-> decode_utf8(a.title_link),
     color |-> decode_utf8(a.color),
     fields |-> [i \in 1..Len(a.fields) |-> json_field(a.fields[i])]]

json_dumps(p) ==
    [k \in DOMAIN p |->
        IF k = "attachments"
        THEN [i \in 1..Len(p[k]) |-> json_attachment(p[k][i])]
        ELSE decode_utf8(p[k])]

\* lines 197-201: the request handed to http.safe_urlopen
build_request(webhook, payload) ==
    [url |-> strip_spaces(webhook), method |-> "POST",
     data |-> [payload |-> json_dumps(payload)]]


\* ------------------------------------------------------------------ inputs
\* The inputs of one notify call.  Each kind of input has a full set and a
\* small base set; an initial state takes one kind from its full set and the
\* others from their base sets.

\* sequences without repetition, of length at most n, over S
SeqsNoRep(S, n) ==
    UNION {{s \in [1..k -> S] : \A i, j \in 1..k : i # j => s[i] # s[j]} :
           k \in 0..n}

Url == <<"https://hooks.example/T1">>

WebhookStored == {<<>>, <<<<>>>>, <<<<" ">>>>, <<Url>>, <<<<" ">> \o Url \o <<" ">>>>}
UsernameStored ==
    {<<>>, <<<<>>>>, <<<<"\t", " ">>>>, <<<<" ", "B", "U+00E9", "t", "\t">>>>}
ChannelStored == {<<>>, <<<<>>>>, <<<<" ">>>>, <<<<"\t", "#", "ops", " ">>>>}
IconStored == {<<>>, <<<<>>>>, <<<<"http://icons.example/32.png">>>>}
FlagStored == {<<>>, <<FALSE>>, <<TRUE>>}

Options(W, U, C, I, F) ==
    {[webhook |-> w, username |-> u, channel |-> c, icon_url |-> i,
      include_rules |-> r, include_tags |-> t] :
        w \in W, u \in U, c \in C, i \in I, r \in F, t \in F}

OptionsFull ==
    Options(WebhookStored, UsernameStored, ChannelStored, IconStored, FlagStored)
OptionsBase ==
    Options({<<Url>>}, {<<<<"Sentry">>>>}, {<<<<"#", "general">>>>}, {<<>>},
            {<<FALSE>>, <<TRUE>>})

Team == [name |-> <<"Sentry">>]
ProjectOf(n) ==
    [id |-> 1, name |-> n, slug |-> "backend", team |-> Team]
ProjectNamesFull ==
    {<<"Backend">>, <<"Sentry", " ", "Backend">>, <<"My", "Sentry">>,
     <<"Caf", "U+00E9">>}
ProjectNamesBase == {<<"Backend">>}

Title == <<"NullPointerException">>
TitleCulpritFull ==
    {<<Title, Title>>, <<Title, <<"app.views.index">>>>, <<Title, <<>>>>,
     <<<<>>, <<>>>>, <<<<"d", "U+00E9", "j", "\t">>, <<"d", "U+00E9", "j">>>>}
TitleCulpritBase == {<<Title, Title>>, <<Title, <<"app.views.index">>>>}

LevelsFull == {"debug", "info", "warning", "error", "fatal", "bogus"}
LevelsBase == {"error"}

GroupOf(tc, level, name) ==
    [level |-> level, message_short |-> tc[1], culprit |-> tc[2],
     url |-> <<"https://sentry.example/org/backend/group/7/">>,
     project |-> ProjectOf(name), organization |-> [slug |-> "org"]]

GroupsFull ==
    {GroupOf(tc, l, n) : tc \in TitleCulpritFull, l \in LevelsFull,
                         n \in ProjectNamesFull}
GroupsBase ==
    {GroupOf(tc, l, n) : tc \in TitleCulpritBase, l \in LevelsBase,
                         n \in ProjectNamesBase}

RuleLabels == <<<<"Every", " ", "event">>, <<"R", "U+00E9", "gression">>,
                <<"Spike">>, <<"Nightly">>>>
RuleIds == <<"11", "12", "13", "14">>
RulePool == {[id |-> RuleIds[i], label |-> RuleLabels[i]] : i \in 1..(MaxRules + 1)}
RulesFull == SeqsNoRep(RulePool, MaxRules)
RulesBase == {<<>>, <<[id |-> RuleIds[1], label |-> RuleLabels[1]]>>}

Env == <<"env">>
Os == <<"os">>
Prod == <<"prod">>
Dev == <<"d", "U+00E9", "v">>
TagPool == {<<Env, Prod>>, <<Os, Prod>>, <<Env, Dev>>}
TagsFull == SeqsNoRep(TagPool, MaxTags)
TagsBase == {<<>>, <<<<Env, Prod>>>>}

\* rows of the TagKey table; (project, key) is unique
TagKeyPool ==
    {[project |-> 1, key |-> Env, label |-> <<"Environment">>],
     [project |-> 2, key |-> Env, label |-> <<"Env", " ", "two">>],
     [project |-> 1, key |-> Os, label |-> <<"Syst", "U+00E9", "m">>]}
\* rows of the TagValue table; (project, key, value) is unique
TagValuePool ==
    {[project |-> 1, key |-> Env, value |-> Prod, label |-> <<"Production">>],
     [project |-> 2, key |-> Env, value |-> Prod, label |-> <<"Prod", " ", "two">>],
     [project |-> 1, key |-> Os, value |-> Prod, label |-> <<"Product">>]}
DbFull == {[TagKey |-> ks, TagValue |-> vs] :
              ks \in SUBSET TagKeyPool, vs \in SUBSET TagValuePool}
DbBase == {[TagKey |-> {}, TagValue |-> {}]}

Kinds == {"settings", "group", "rules", "tags"}

Init ==
    /\ \E kind \in Kinds :
        /\ options \in (IF kind = "settings" THEN OptionsFull ELSE OptionsBase)
        /\ db \in (IF kind = "tags" THEN DbFull ELSE DbBase)
        /\ \E g \in (IF kind = "group" THEN GroupsFull ELSE GroupsBase),
              rs \in (IF kind = "rules" THEN RulesFull ELSE RulesBase),
              ts \in (IF kind = "tags" THEN TagsFull ELSE TagsBase) :
              notification = [event |-> [tags |-> ts, group |-> g], rules |-> rs]
    /\ pc = "notify"
    /\ fields = <<>>
    /\ key_labels = <<>>
    /\ requests = <<>>
    /\ calls = <<>>
    /\ result = "unset"
    /\ exc = "none"

\* ----------------------------------------------------------------- actions
input == <<options, notification, db>>

\* lines 125-126: not configured, notify returns None
NotifySkipped ==
    /\ pc = "notify"
    /\ ~is_configured
    /\ pc' = "returned"
    /\ result' = "None"
    /\ UNCHANGED <<input, fields, key_labels, requests, calls, exc>>

\* lines 129 and 131: .strip() on the None of an option that is not stored
NotifyOptionMissing ==
    /\ pc = "notify"
    /\ is_configured
    /\ IsNone(get_option("username")) \/ IsNone(get_option("channel"))
    /\ pc' = "raised"
    /\ exc' = "AttributeError"
    /\ UNCHANGED <<input, fields, key_labels, requests, calls, result>>

\* NotifyFields with the Project field appended before the Culprit field
NotifyFields_project_first ==
    /\ pc = "notify"
    /\ is_configured
    /\ ~IsNone(get_option("username")) /\ ~IsNone(get_option("channel"))
    /\ LET title == encode_utf8(group.message_short)
           culprit == encode_utf8(group.culprit)
           project_name == encode_utf8(get_project_full_name(project))
       IN  fields' = project_fields(project_name)
                     \o culprit_fields(title, culprit)
                     \o rule_fields(group, notification.rules)
    /\ pc' = IF TruthyBool(get_option("include_tags")) THEN "get_tags" ELSE "send"
    /\ UNCHANGED <<input, key_labels, requests, calls, result, exc>>

\* lines 128-169: Culprit, Project and Triggered By
NotifyFields ==
    /\ pc = "notify"
    /\ is_configured
    /\ ~IsNone(get_option("username")) /\ ~IsNone(get_option("channel"))
    /\ LET title == encode_utf8(group.message_short)
           culprit == encode_utf8(group.culprit)
           project_name == encode_utf8(get_project_full_name(project))
       IN  fields' = culprit_fields(title, culprit)
                     \o project_fields(project_name)
                     \o rule_fields(group, notification.rules)
    /\ pc' = IF TruthyBool(get_option("include_tags")) THEN "get_tags" ELSE "send"
    /\ UNCHANGED <<input, key_labels, requests, calls, result, exc>>

\* lines 97-99: no tags, _get_tags returns ()
GetTagsEmpty ==
    /\ pc = "get_tags"
    /\ Len(event.tags) = 0
    /\ pc' = "send"
    /\ UNCHANGED <<input, fields, key_labels, requests, calls, result, exc>>

\* lines 101-107: the TagKey lookup
GetTagsKeyLabels ==
    /\ pc = "get_tags"
    /\ Len(event.tags) > 0
    /\ key_labels' = key_labels_of(TagKey_filter(project, event.tags))
    /\ calls' = Append(calls, "TagKey")
    /\ pc' = "value_labels"
    /\ UNCHANGED <<input, fields, requests, result, exc>>

\* lines 108-118 and 170-175: the TagValue lookup, then one field per tag
GetTagsValueLabels ==
    /\ pc = "value_labels"
    /\ LET value_labels == value_labels_of(TagValue_filter(project, event.tags))
       IN  fields' = fields \o tag_fields(event.tags, key_labels, value_labels)
    /\ calls' = Append(calls, "TagValue")
    /\ pc' = "send"
    /\ UNCHANGED <<input, key_labels, requests, result, exc>>

\* lines 177-201: the payload, and the POST handed to http.safe_urlopen
Send ==
    /\ pc = "send"
    /\ LET webhook == get_option("webhook")[1]
           username == strip(get_option("username")[1])
           channel == strip(get_option("channel")[1])
           payload == build_payload(group, fields, username, channel,
                                    get_option("icon_url"))
       IN  requests' = Append(requests, build_request(webhook, payload))
    /\ calls' = Append(calls, "POST")
    /\ pc' = "urlopen"
    /\ UNCHANGED <<input, fields, key_labels, result, exc>>

TransportResults == {"response 200", "response 500"}

\* line 201: notify returns what safe_urlopen returns
UrlopenReturns ==
    /\ pc = "urlopen"
    /\ \E r \in TransportResults : result' = r
    /\ pc' = "returned"
    /\ UNCHANGED <<input, fields, key_labels, requests, calls, exc>>

\* line 201: safe_urlopen raises, notify does not catch it
UrlopenRaises ==
    /\ pc = "urlopen"
    /\ exc' = "TransportError"
    /\ pc' = "raised"
    /\ UNCHANGED <<input, fields, key_labels, requests, calls, result>>

Next ==
    \/ NotifySkipped
    \/ NotifyOptionMissing
    \/ NotifyFields
    \/ GetTagsEmpty
    \/ GetTagsKeyLabels
    \/ GetTagsValueLabels
    \/ Send
    \/ UrlopenReturns
    \/ UrlopenRaises

Spec == Init /\ [][Next]_vars


\* ------------------------------------------------------------------ claims
Posted == Len(requests) > 0
Finished == pc \in {"returned", "raised"}
\* the JSON document of the request that was sent, and its one attachment
Sent == requests[1].data.payload
SentFields == Sent["attachments"][1].fields

StoredEmpty(o) == Len(o) = 0 \/ Len(o[1]) = 0

\* the text between the first and the last token of s that is not in chars
Between(s, chars) ==
    LET keep == {i \in 1..Len(s) : s[i] \notin chars}
    IN  IF keep = {} THEN <<>>
        ELSE SubSeq(s, CHOOSE i \in keep : \A j \in keep : i <= j,
                       CHOOSE i \in keep : \A j \in keep : i >= j)

Positions(title) == {i \in 1..Len(SentFields) : SentFields[i].title = title}

\* C1: with the webhook option absent or empty, notify sends no request,
\* makes no label lookup and returns the skipped result (None).
C1_NoWebhookNoRequest ==
    StoredEmpty(options.webhook) =>
        /\ requests = <<>>
        /\ calls = <<>>
        /\ exc = "none"
        /\ pc \in {"notify", "returned"}
        /\ pc = "returned" => result = "None"

C1_Witness ==
    /\ pc = "returned" /\ result = "None"
    /\ options.webhook = <<<<>>>>
    /\ options.include_tags = <<TRUE>>
    /\ Len(event.tags) > 0

\* C2: the colour sent is "#" and the table's code for the five known levels,
\* and "#f43f20", the error colour, for every other level.
C2_ColorTotal ==
    Posted =>
        Sent["attachments"][1].color =
            <<"#", CASE group.level = "debug" -> "cfd3da"
                     [] group.level = "info" -> "2788ce"
                     [] group.level = "warning" -> "f18500"
                     [] group.level = "fatal" -> "d20f2a"
                     [] OTHER -> "f43f20">>

\* C3: with a webhook configured, notify never raises for missing optional
\* data (username, channel or icon_url not stored, no rules, no tags, tags
\* without labels): the only exception is the transport's, after the POST.
C3_MissingOptionalDataNeverRaises ==
    (~StoredEmpty(options.webhook) /\ pc = "raised") =>
        (exc = "TransportError" /\ Len(requests) = 1)

\* C4 as claimed: a Culprit field is sent iff the culprit differs from the
\* title, and only for a culprit that is not empty.
C4_CulpritOnlyNonEmpty ==
    Posted =>
        /\ (Positions(<<"Culprit">>) # {}) <=> (group.culprit # group.message_short)
        /\ (Positions(<<"Culprit">>) # {}) => (group.culprit # <<>>)

\* C4 as amended: a Culprit field is sent iff the culprit differs from the
\* title by exact comparison, an empty culprit included; it is multi-line
\* and its value is the culprit text.
C4_CulpritIffDiffers ==
    Posted =>
        /\ (Positions(<<"Culprit">>) # {}) <=> (group.culprit # group.message_short)
        /\ \A i \in Positions(<<"Culprit">>) :
              SentFields[i] = Field(<<"Culprit">>, group.culprit, FALSE)

C4_Witness ==
    /\ Posted
    /\ group.culprit = <<>> /\ group.message_short # <<>>
    /\ SentFields[1] = Field(<<"Culprit">>, <<>>, FALSE)

\* C5: username and channel are sent iff their stored value is not empty
\* once surrounding whitespace is removed, and then carry the trimmed value;
\* icon_url is sent iff an icon URL is stored.
C5_OptionalKeys ==
    Posted =>
        LET username == Between(options.username[1], {" ", "\t"})
            channel == Between(options.channel[1], {" ", "\t"})
        IN  /\ ("username" \in DOMAIN Sent) <=> (username # <<>>)
            /\ ("username" \in DOMAIN Sent) => (Sent["username"] = username)
            /\ ("channel" \in DOMAIN Sent) <=> (channel # <<>>)
            /\ ("channel" \in DOMAIN Sent) => (Sent["channel"] = channel)
            /\ ("icon_url" \in DOMAIN Sent) <=> ~StoredEmpty(options.icon_url)
            /\ ("icon_url" \in DOMAIN Sent) => (Sent["icon_url"] = options.icon_url[1])

C5_Witness ==
    /\ Posted
    /\ options.username = <<<<"\t", " ">>>> /\ "username" \notin DOMAIN Sent
    /\ "channel" \in DOMAIN Sent /\ Sent["channel"] = <<"#", "ops">>
    /\ "icon_url" \in DOMAIN Sent

\* the "<link | label>" tokens of rules 1..n, comma-joined
RECURSIVE TriggeredBy(_, _)
TriggeredBy(rule_list, n) ==
    IF n = 0 THEN <<>>
    ELSE (IF n = 1 THEN <<>> ELSE TriggeredBy(rule_list, n - 1) \o <<",", " ">>)
         \o <<"<", "/", "org", "/", "backend", "/rules/", rule_list[n].id, "/",
              " ", "|", " ">>
         \o rule_list[n].label \o <<">">>

\* C6: a Triggered By field is sent iff include_rules is true and there is
\* at least one rule; then there is exactly one, multi-line, holding one
\* "<link | label>" token per rule, in rule order, comma-joined.
C6_TriggeredBy ==
    Posted =>
        LET at == Positions(<<"Triggered By">>)
            rule_list == notification.rules
        IN  /\ (at # {}) <=> (options.include_rules = <<TRUE>> /\ Len(rule_list) > 0)
            /\ Cardinality(at) <= 1
            /\ \A i \in at :
                  SentFields[i] =
                      Field(<<"Triggered By">>,
                            TriggeredBy(rule_list, Len(rule_list)), FALSE)

C6_Witness ==
    /\ Posted
    /\ options.include_rules = <<TRUE>>
    /\ Len(notification.rules) = 2
    /\ Positions(<<"Triggered By">>) # {}

\* the label the project's TagKey table has for key k, else k
KeyLabel(k) ==
    LET rows == {o \in db.TagKey : o.project = project.id /\ o.key = k}
    IN  IF rows = {} THEN k ELSE (CHOOSE o \in rows : TRUE).label

\* the label the project's TagValue table has for the pair (k, v), else v
ValueLabel(k, v) ==
    LET rows == {o \in db.TagValue :
                    o.project = project.id /\ o.key = k /\ o.value = v}
    IN  IF rows = {} THEN v ELSE (CHOOSE o \in rows : TRUE).label

FixedTitles == {<<"Culprit">>, <<"Project">>, <<"Triggered By">>}
TagFieldsSent == SelectSeq(SentFields, LAMBDA f : f.title \notin FixedTitles)

\* C7: with include_tags true there is exactly one single-line field per
\* tag of the event, titled with the key's label (else the raw key) and
\* valued with the pair's label (else the raw value); with include_tags
\* false there is no tag field.
C7_TagFields ==
    Posted =>
        LET tag_list == event.tags
        IN  IF options.include_tags = <<TRUE>>
            THEN /\ Len(TagFieldsSent) = Len(tag_list)
                 /\ \A i \in 1..Len(tag_list) :
                       TagFieldsSent[i] =
                           Field(KeyLabel(tag_list[i][1]),
                                 ValueLabel(tag_list[i][1], tag_list[i][2]),
                                 TRUE)
            ELSE TagFieldsSent = <<>>

C7_Witness ==
    /\ Posted
    /\ options.include_tags = <<TRUE>>
    /\ event.tags = <<<<Env, Prod>>>>
    /\ db.TagKey = {} /\ db.TagValue = {}
    /\ SentFields[Len(SentFields)] = Field(<<"env">>, <<"prod">>, TRUE)

\* 1 Culprit, 2 Project, 3 Triggered By, 4 a tag
Kind(f) ==
    CASE f.title = <<"Culprit">> -> 1
      [] f.title = <<"Project">> -> 2
      [] f.title = <<"Triggered By">> -> 3
      [] OTHER -> 4

\* C8: the fields sent are in the order Culprit, Project, Triggered By,
\* tags; Project is there exactly once, single-line; the tag fields follow
\* the order of the event's tag list.
C8_FieldOrder ==
    Posted =>
        /\ \A i, j \in 1..Len(SentFields) :
              i < j => Kind(SentFields[i]) <= Kind(SentFields[j])
        /\ Cardinality(Positions(<<"Project">>)) = 1
        /\ \A i \in Positions(<<"Project">>) : SentFields[i].short
        /\ LET first == Len(SentFields) - Len(TagFieldsSent)
           IN  \A i \in 1..Len(TagFieldsSent) :
                  /\ i <= Len(event.tags)
                  /\ SentFields[first + i].title = KeyLabel(event.tags[i][1])

C8_Witness ==
    /\ Posted
    /\ Len(SentFields) = 5
    /\ Kind(SentFields[1]) = 1 /\ Kind(SentFields[2]) = 2
    /\ Kind(SentFields[3]) = 3 /\ Kind(SentFields[4]) = 4
    /\ SentFields[4].title # SentFields[5].title

\* C9: a notify call for a configured project ends having made at most two
\* label lookups and exactly one POST, the POST last; what it returns is the
\* transport's result, and the only exception is the transport's.
C9_OnePostAfterLookups ==
    (~StoredEmpty(options.webhook) /\ Finished) =>
        /\ Len(requests) = 1
        /\ Len(calls) <= 3
        /\ calls[Len(calls)] = "POST"
        /\ \A i \in 1..(Len(calls) - 1) : calls[i] # "POST"
        /\ pc = "returned" => result \in TransportResults
        /\ pc = "raised" => exc = "TransportError"

\* C10: every POST goes to the stored webhook without its leading and
\* trailing spaces, and that URL is not empty.
C10_PostUrlNonEmpty ==
    \A i \in 1..Len(requests) :
        /\ requests[i].url = Between(options.webhook[1], {" "})
        /\ requests[i].url # <<>>

====
